---- MODULE Spec2Model ----
(***************************************************************************)
(* Model of movimientos.py: a batch pipeline that loads a CSV file of bank *)
(* transactions, folds the rows into summary statistics with decimal       *)
(* arithmetic, prints a report and optionally saves it to a file.          *)
(*                                                                         *)
(* Text is a sequence of one-character strings, console output is the text *)
(* printed so far, and a file is the sequence of its bytes.                *)
(***************************************************************************)
EXTENDS Integers, Sequences, FiniteSets, TLC

VARIABLES pc, nombre_archivo, archivo, transacciones, idx, monto, tipo,
          suma_creditos, suma_debitos, transaccion_mayor,
          contador_creditos, contador_debitos, estadisticas,
          consola, archivo_salida, excepcion

vars == <<pc, nombre_archivo, archivo, transacciones, idx, monto, tipo,
          suma_creditos, suma_debitos, transaccion_mayor,
          contador_creditos, contador_debitos, estadisticas,
          consola, archivo_salida, excepcion>>

(***************************************************************************)
(* Bounds of the model.                                                    *)
(***************************************************************************)
MaxRows == 3

(***************************************************************************)
(* Python's None and optional values: None is the empty tuple, a present   *)
(* value x is the one-element tuple <<x>>.                                 *)
(***************************************************************************)
None == <<>>
Some(x) == <<x>>
IsNone(o) == o = <<>>
Val(o) == o[1]

Min(a, b) == IF a <= b THEN a ELSE b
Max(a, b) == IF a >= b THEN a ELSE b

\* The outcome of a call: a returned value or a raised exception, with the
\* text it printed.
Returned(v) == [kind |-> "return", value |-> v, exc |-> "", salida |-> <<>>]
Raised(e) == [kind |-> "raise", value |-> None, exc |-> e, salida |-> <<>>]

(***************************************************************************)
(* Text.  The alphabet is ISO-8859-1 without its control characters other  *)
(* than tab, line feed, form feed and carriage return, and without the     *)
(* grave accent (which a string constant cannot hold): code points 9, 10,  *)
(* 12, 13, 32..95, 97..126 and 160..255.  Every operator on text is exact  *)
(* on this alphabet and undefined on a character outside it.               *)
(***************************************************************************)
\* The characters of a string constant.
Str(s) == [i \in 1..Len(s) |-> SubSeq(s, i, i)]

\* The alphabet in code point order.  The last string begins with the
\* no-break space (160) and has the soft hyphen (173) between 172 and 174.
Caracteres ==
    <<"\t", "\n", "\f", "\r">>
    \o Str(" !\"#$%&'()*+,-./0123456789:;<=>?@ABCDEFGHIJKLMNOPQRSTUVWXYZ[\\]^_")
    \o Str("abcdefghijklmnopqrstuvwxyz{|}~")
    \o Str(" ¡¢£¤¥¦§¨©ª«¬­®¯°±²³´µ¶·¸¹º»¼½¾¿ÀÁÂÃÄÅÆÇÈÉÊËÌÍÎÏÐÑÒÓÔÕÖ×ØÙÚÛÜÝÞßàáâãäåæçèéêëìíîïðñòóôõö÷øùúûüýþÿ")
Codigos ==
    <<9, 10, 12, 13>> \o [i \in 1..64 |-> 31 + i] \o [i \in 1..30 |-> 96 + i]
    \o [i \in 1..96 |-> 159 + i]
Alfabeto == {Caracteres[k] : k \in 1..Len(Caracteres)}

\* A character of the alphabet (undefined otherwise), and a text over it.
Caracter == [c \in Alfabeto |-> c]
Texto(s) == [i \in 1..Len(s) |-> Caracter[s[i]]]

\* ord(c), as a table over the alphabet.
Ord == [c \in Alfabeto |->
           Codigos[CHOOSE k \in 1..Len(Caracteres) : Caracteres[k] = c]]

\* str.lower(): on this alphabet every cased character has a one-character
\* lower-case form, the letters below; every other character is unchanged.
UpperChars == Str("ABCDEFGHIJKLMNOPQRSTUVWXYZÀÁÂÃÄÅÆÇÈÉÊËÌÍÎÏÐÑÒÓÔÕÖØÙÚÛÜÝÞ")
LowerChars == Str("abcdefghijklmnopqrstuvwxyzàáâãäåæçèéêëìíîïðñòóôõöøùúûüýþ")
LowerChar ==
    [c \in Alfabeto |->
        IF \E k \in 1..Len(UpperChars) : UpperChars[k] = c
        THEN LowerChars[CHOOSE k \in 1..Len(UpperChars) : UpperChars[k] = c]
        ELSE c]
StrLower(s) == [i \in 1..Len(s) |-> LowerChar[s[i]]]

\* str.isspace() of one character, and str.strip().
IsSpace == [c \in Alfabeto |-> Ord[c] \in {9, 10, 12, 13, 32, 160}]
Strip(s) ==
    IF \A i \in 1..Len(s) : IsSpace[s[i]] THEN <<>>
    ELSE SubSeq(s,
                CHOOSE i \in 1..Len(s) :
                    ~IsSpace[s[i]] /\ \A j \in 1..(i - 1) : IsSpace[s[j]],
                CHOOSE i \in 1..Len(s) :
                    ~IsSpace[s[i]] /\ \A j \in (i + 1)..Len(s) : IsSpace[s[j]])

\* print(s): the text and a line terminator.
PyPrint(s) == s \o <<"\n">>

\* s.split('.')[0]: the text before the first period.
SplitFirst(s) ==
    LET dots == {i \in 1..Len(s) : s[i] = "."}
    IN  IF dots = {} THEN s
        ELSE SubSeq(s, 1, (CHOOSE i \in dots : \A j \in dots : i <= j) - 1)

\* str.encode('utf-8'): one byte below 128, two bytes from 128 to 255.
Utf8Char ==
    [c \in Alfabeto |->
        IF Ord[c] < 128 THEN <<Ord[c]>>
        ELSE <<192 + (Ord[c] \div 64), 128 + (Ord[c] % 64)>>]
RECURSIVE Utf8(_)
Utf8(s) ==
    IF Len(s) = 0 THEN <<>>
    ELSE IF Len(s) = 1 THEN Utf8Char[s[1]]
    ELSE Utf8(SubSeq(s, 1, Len(s) \div 2))
         \o Utf8(SubSeq(s, (Len(s) \div 2) + 1, Len(s)))

(***************************************************************************)
(* decimal.Decimal.  A finite Decimal is sign (0 or 1), coefficient (its   *)
(* decimal digits, most significant first, no leading zero unless it is    *)
(* the single digit 0) and exponent: (-1)^sign * int * 10^exp.  A special  *)
(* value has special = "F" (infinity), "n" (quiet NaN) or "N" (signaling   *)
(* NaN); a NaN keeps its payload digits in int.  Exponents are integers of *)
(* the checker, so they stay below 2^31 in absolute value.                 *)
(***************************************************************************)
\* The default context: precision, exponent limits; the traps enabled are
\* InvalidOperation, DivisionByZero and Overflow; rounding is half-even.
Prec == 28
Emax == 999999
Emin == -999999
Etiny == Emin - Prec + 1
Etop == Emax - Prec + 1

DigitChars == <<"0", "1", "2", "3", "4", "5", "6", "7", "8", "9">>
IsDigitChar(c) == \E d \in 1..10 : DigitChars[d] = c
CharDigit(c) == (CHOOSE d \in 1..10 : DigitChars[d] = c) - 1

Zeros(n) == [i \in 1..Max(n, 0) |-> 0]

\* Drop leading zeros, keeping at least one digit (str(int(digits))).
StripZeros(ds) ==
    LET nz == {i \in 1..Len(ds) : ds[i] # 0}
    IN  IF nz = {} THEN <<0>>
        ELSE SubSeq(ds, CHOOSE i \in nz : \A j \in nz : i <= j, Len(ds))

\* Drop every leading zero (digits.lstrip('0')).
LStripZeros(ds) == IF StripZeros(ds) = <<0>> THEN <<>> ELSE StripZeros(ds)

Dec(s, ds, e) == [sign |-> s, int |-> ds, exp |-> e, special |-> ""]
DecSpecial(s, ds, k) == [sign |-> s, int |-> ds, exp |-> 0, special |-> k]
DecZero == Dec(0, <<0>>, 0)

\* not self, self._isnan(), self._isinfinity(), (-1)**self._sign,
\* self.adjusted().
IsZero(d) == d.special = "" /\ d.int = <<0>>
IsNaN(d) == IF d.special = "n" THEN 1 ELSE IF d.special = "N" THEN 2 ELSE 0
IsInfinity(d) ==
    IF d.special = "F" THEN (IF d.sign = 1 THEN -1 ELSE 1) ELSE 0
Signo(d) == IF d.sign = 1 THEN -1 ELSE 1
Adjusted(d) == d.exp + Len(d.int) - 1

PadLeft(ds, n) == Zeros(n - Len(ds)) \o ds

\* Compare equal-length digit strings: -1, 0 or 1.
CmpMag(A, B) ==
    LET df == {i \in 1..Len(A) : A[i] # B[i]}
        m == CHOOSE i \in df : \A j \in df : i <= j
    IN  IF df = {} THEN 0 ELSE IF A[m] < B[m] THEN -1 ELSE 1

\* Compare two coefficients as integers.
CmpInt(A, B) ==
    CmpMag(PadLeft(A, Max(Len(A), Len(B))), PadLeft(B, Max(Len(A), Len(B))))

\* Schoolbook addition of equal-length digit strings: the carry into
\* position i comes from the nearest position to its right that overflows,
\* passed along through positions that sum to 9.
Carry(A, B, i) ==
    IF \E j \in (i + 1)..Len(A) :
           /\ A[j] + B[j] >= 10
           /\ \A k \in (i + 1)..(j - 1) : A[k] + B[k] = 9
    THEN 1 ELSE 0
AddMag(A, B) ==
    (IF Carry(A, B, 0) = 1 THEN <<1>> ELSE <<>>)
    \o [i \in 1..Len(A) |-> (A[i] + B[i] + Carry(A, B, i)) % 10]

\* Schoolbook subtraction A - B of equal-length digit strings, A >= B.
Borrow(A, B, i) ==
    IF \E j \in (i + 1)..Len(A) :
           /\ A[j] < B[j]
           /\ \A k \in (i + 1)..(j - 1) : A[k] = B[k]
    THEN 1 ELSE 0
SubMag(A, B) ==
    [i \in 1..Len(A) |-> (A[i] - B[i] - Borrow(A, B, i) + 10) % 10]

\* The sum and the difference (A >= B) of two coefficients as integers.
AddInt(A, B) ==
    StripZeros(AddMag(PadLeft(A, Max(Len(A), Len(B))),
                      PadLeft(B, Max(Len(A), Len(B)))))
SubInt(A, B) ==
    StripZeros(SubMag(PadLeft(A, Max(Len(A), Len(B))),
                      PadLeft(B, Max(Len(A), Len(B)))))

\* Decimal.copy_negate: flips the sign.
DecNeg(d) == [d EXCEPT !.sign = 1 - d.sign]

\* Decimal._fix_nan: a payload longer than the precision keeps its last
\* Prec digits, without their leading zeros.
FixNaN(d) ==
    IF Len(d.int) > Prec
    THEN [d EXCEPT !.int = LStripZeros(SubSeq(d.int, Len(d.int) - Prec + 1,
                                              Len(d.int)))]
    ELSE d

\* Decimal._round_half_even: whether dropping the digits `rest` after the
\* digits `keep` adds one to the coefficient.
RoundsUp(keep, rest) ==
    LET exactHalf == rest[1] = 5 /\ \A i \in 2..Len(rest) : rest[i] = 0
    IN  /\ rest[1] >= 5
        /\ ~(exactHalf /\ (keep = <<>> \/ keep[Len(keep)] % 2 = 0))

\* Decimal._fix under the default context: round to Prec significant digits
\* within the exponent range; a result above Emax raises Overflow, a result
\* below Etiny is rounded to Etiny (Underflow is not trapped).
\* The coefficient `keep`, plus one when the dropped digits round up.
Rounded(keep, rest) ==
    IF RoundsUp(keep, rest)
    THEN AddInt(IF keep = <<>> THEN <<0>> ELSE keep, <<1>>)
    ELSE IF keep = <<>> THEN <<0>> ELSE keep

\* The rounded coefficient at exponent exp_min; one that has grown past Prec
\* digits loses its last digit (a zero) and gains one in the exponent.
Shifted(sign, coeff, exp_min) ==
    IF Len(coeff) > Prec
    THEN IF exp_min + 1 > Etop THEN Raised("Overflow")
         ELSE Returned(Dec(sign, SubSeq(coeff, 1, Len(coeff) - 1), exp_min + 1))
    ELSE IF exp_min > Etop THEN Raised("Overflow")
    ELSE Returned(Dec(sign, coeff, exp_min))

\* Keep the first `digits` digits of src.
RoundTo(sign, src, digits, exp_min) ==
    Shifted(sign,
            Rounded(SubSeq(src, 1, digits), SubSeq(src, digits + 1, Len(src))),
            exp_min)

\* Round d to the exponent exp_min, which is above its own.
FixTo(d, exp_min) ==
    RoundTo(d.sign,
            IF Len(d.int) + d.exp - exp_min < 0 THEN <<1>> ELSE d.int,
            Max(Len(d.int) + d.exp - exp_min, 0),
            exp_min)

Fix(d) ==
    IF d.special # "" THEN Returned(IF IsNaN(d) # 0 THEN FixNaN(d) ELSE d)
    ELSE IF IsZero(d)
    THEN Returned(Dec(d.sign, <<0>>, Min(Max(d.exp, Etiny), Emax)))
    ELSE IF Len(d.int) + d.exp - Prec > Etop THEN Raised("Overflow")
    ELSE IF d.exp < Max(Len(d.int) + d.exp - Prec, Etiny)
    THEN FixTo(d, Max(Len(d.int) + d.exp - Prec, Etiny))
    ELSE Returned(d)

\* Decimal._rescale to an exponent not above the value's own: pad with zeros.
Rescale(d, e) == Dec(d.sign, d.int \o Zeros(d.exp - e), e)

\* _normalize: the two nonzero coefficients written at a common exponent.
\* The operand with the smaller exponent (other) is replaced by a 1 far to
\* the right when it is too small to reach the digits that are kept.
Align(tmp, other, exp) ==
    IF Len(other.int) + other.exp - 1 < exp
    THEN [tmp |-> tmp.int \o Zeros(tmp.exp - exp), other |-> <<1>>,
          exp |-> exp]
    ELSE [tmp |-> tmp.int \o Zeros(tmp.exp - other.exp), other |-> other.int,
          exp |-> other.exp]
Normalize(a, b) ==
    IF a.exp < b.exp
    THEN Align(b, a, b.exp + Min(-1, Len(b.int) - Prec - 2))
    ELSE Align(a, b, a.exp + Min(-1, Len(a.int) - Prec - 2))

\* Decimal._check_nans: a signaling NaN raises, a quiet NaN is the result.
CheckNaNs(a, b) ==
    IF IsNaN(a) = 2 \/ IsNaN(b) = 2 THEN Raised("InvalidOperation")
    ELSE IF IsNaN(a) = 1 THEN Returned(Some(FixNaN(a)))
    ELSE IF IsNaN(b) = 1 THEN Returned(Some(FixNaN(b)))
    ELSE Returned(None)

\* Decimal.__add__ under the default context: the cases with a special
\* operand, the sum of two finite values before rounding, and the addition.
AddSpecial(a, b, nans) ==
    IF nans.kind = "raise" THEN nans
    ELSE IF ~IsNone(nans.value) THEN Returned(Val(nans.value))
    ELSE IF a.special = "F"
    THEN IF a.sign # b.sign /\ b.special = "F"
         THEN Raised("InvalidOperation")
         ELSE Returned(a)
    ELSE Returned(b)

\* Both operands nonzero; n is their _normalize, with a's coefficient in
\* op1 and b's in op2.
AddNormalized(a, b, op1, op2, exp) ==
    IF a.sign = b.sign THEN Dec(a.sign, AddInt(op1, op2), exp)
    ELSE IF CmpInt(op1, op2) = 0 THEN Dec(0, <<0>>, Min(a.exp, b.exp))
    ELSE IF CmpInt(op1, op2) > 0 THEN Dec(a.sign, SubInt(op1, op2), exp)
    ELSE Dec(b.sign, SubInt(op2, op1), exp)

AddFinite(a, b, exp) ==
    IF IsZero(a) /\ IsZero(b) THEN Dec(Min(a.sign, b.sign), <<0>>, exp)
    ELSE IF IsZero(a) THEN Rescale(b, Max(exp, b.exp - Prec - 1))
    ELSE IF IsZero(b) THEN Rescale(a, Max(exp, a.exp - Prec - 1))
    ELSE IF a.exp < b.exp
    THEN AddNormalized(a, b, Normalize(a, b).other, Normalize(a, b).tmp,
                       Normalize(a, b).exp)
    ELSE AddNormalized(a, b, Normalize(a, b).tmp, Normalize(a, b).other,
                       Normalize(a, b).exp)

DecAdd(a, b) ==
    IF a.special # "" \/ b.special # ""
    THEN AddSpecial(a, b, CheckNaNs(a, b))
    ELSE Fix(AddFinite(a, b, Min(a.exp, b.exp)))

\* Decimal.__sub__ under the default context.
DecSub(a, b) ==
    LET nans == CheckNaNs(a, b)
    IN  IF (a.special # "" \/ b.special # "")
           /\ (nans.kind = "raise" \/ ~IsNone(nans.value))
        THEN IF nans.kind = "raise" THEN nans
             ELSE Returned(Val(nans.value))
        ELSE DecAdd(a, DecNeg(b))

\* Decimal._cmp: the numerical comparison, -1, 0 or 1 (exact, never rounded;
\* a NaN counts as a finite value here).
DecCmp(a, b) ==
    LET A == a.int \o Zeros(a.exp - b.exp)
        B == b.int \o Zeros(b.exp - a.exp)
    IN  IF a.special # "" \/ b.special # ""
        THEN IF IsInfinity(a) = IsInfinity(b) THEN 0
             ELSE IF IsInfinity(a) < IsInfinity(b) THEN -1 ELSE 1
        ELSE IF IsZero(a) THEN (IF IsZero(b) THEN 0 ELSE -Signo(b))
        ELSE IF IsZero(b) THEN Signo(a)
        ELSE IF b.sign < a.sign THEN -1
        ELSE IF a.sign < b.sign THEN 1
        ELSE IF Adjusted(a) = Adjusted(b) THEN Signo(a) * CmpMag(A, B)
        ELSE IF Adjusted(a) > Adjusted(b) THEN Signo(a)
        ELSE -Signo(a)

\* Decimal.__gt__: an ordering comparison involving a NaN raises.
DecGt(a, b) ==
    IF IsNaN(a) # 0 \/ IsNaN(b) # 0 THEN Raised("InvalidOperation")
    ELSE Returned(DecCmp(a, b) > 0)

\* str(int) for an integer, as characters.
RECURSIVE NatStr(_)
NatStr(n) == IF n < 10 THEN <<DigitChars[n + 1]>>
             ELSE NatStr(n \div 10) \o <<DigitChars[(n % 10) + 1]>>
IntStr(n) == IF n < 0 THEN <<"-">> \o NatStr(-n) ELSE NatStr(n)

DigitsStr(ds) == [i \in 1..Len(ds) |-> DigitChars[ds[i] + 1]]
ZeroChars(n) == [i \in 1..Max(n, 0) |-> "0"]

\* Decimal.__str__: the scientific string of the value.
DecStr(d) ==
    LET len == Len(d.int)
        leftdigits == d.exp + len
        dotplace == IF d.exp <= 0 /\ leftdigits > -6 THEN leftdigits ELSE 1
        intpart == IF dotplace <= 0 THEN <<"0">>
                   ELSE IF dotplace >= len
                        THEN DigitsStr(d.int) \o ZeroChars(dotplace - len)
                   ELSE DigitsStr(SubSeq(d.int, 1, dotplace))
        fracpart == IF dotplace <= 0
                        THEN <<".">> \o ZeroChars(-dotplace) \o DigitsStr(d.int)
                    ELSE IF dotplace >= len THEN <<>>
                    ELSE <<".">> \o DigitsStr(SubSeq(d.int, dotplace + 1, len))
        e == leftdigits - dotplace
        exppart == IF e = 0 THEN <<>>
                   ELSE <<"E">> \o (IF e < 0 THEN <<"-">> ELSE <<"+">>)
                        \o NatStr(IF e < 0 THEN -e ELSE e)
        signo == IF d.sign = 1 THEN <<"-">> ELSE <<>>
    IN  IF d.special = "F" THEN signo \o Str("Infinity")
        ELSE IF d.special = "n" THEN signo \o Str("NaN") \o DigitsStr(d.int)
        ELSE IF d.special = "N" THEN signo \o Str("sNaN") \o DigitsStr(d.int)
        ELSE signo \o intpart \o fracpart \o exppart

(***************************************************************************)
(* Decimal(str): the constructor.  The text is stripped of surrounding     *)
(* white space and of every underscore; what is left is an optional sign   *)
(* followed, in any letter case, by "inf" or "infinity", by "nan" or       *)
(* "snan" and payload digits, or by digits with an optional "." among them *)
(* (at least one digit) and an optional exponent "e", sign, digits.        *)
(* Anything else raises decimal.InvalidOperation.                          *)
(***************************************************************************)
AllDigits(s) == \A i \in 1..Len(s) : IsDigitChar(s[i])
DigitsOf(s) == [i \in 1..Len(s) |-> CharDigit(s[i])]
StartsWith(s, p) == Len(s) >= Len(p) /\ SubSeq(s, 1, Len(p)) = p
From(s, i) == SubSeq(s, i, Len(s))

\* int(digits).
RECURSIVE IntOf(_)
IntOf(ds) ==
    IF Len(ds) = 0 THEN 0
    ELSE 10 * IntOf(SubSeq(ds, 1, Len(ds) - 1)) + ds[Len(ds)]

\* The first position of s holding the character c, Len(s) + 1 if none.
IndexOf(s, c) ==
    IF \A i \in 1..Len(s) : s[i] # c THEN Len(s) + 1
    ELSE CHOOSE i \in 1..Len(s) : s[i] = c /\ \A j \in 1..(i - 1) : s[j] # c

\* The exponent part after the "e": an optional sign and digits.
ExpDigits(txt) ==
    IF Len(txt) > 0 /\ txt[1] \in {"-", "+"} THEN Tail(txt) ELSE txt
ExpOk(txt) == Len(ExpDigits(txt)) > 0 /\ AllDigits(ExpDigits(txt))
ExpVal(txt) ==
    IF txt[1] = "-" THEN -IntOf(StripZeros(DigitsOf(ExpDigits(txt))))
    ELSE IntOf(StripZeros(DigitsOf(ExpDigits(txt))))

\* A finite number: the digits before and after the "." and the exponent
\* part (hasExp tells whether there is one).
Finite(sign, intpart, fracpart, hasExp, exptxt) ==
    IF /\ AllDigits(intpart) /\ AllDigits(fracpart)
       /\ Len(intpart) + Len(fracpart) > 0
       /\ hasExp => ExpOk(exptxt)
    THEN Returned(Dec(sign, StripZeros(DigitsOf(intpart \o fracpart)),
                      (IF hasExp THEN ExpVal(exptxt) ELSE 0) - Len(fracpart)))
    ELSE Raised("InvalidOperation")

Number(sign, mant, hasExp, exptxt) ==
    Finite(sign, SubSeq(mant, 1, IndexOf(mant, ".") - 1),
           From(mant, IndexOf(mant, ".") + 1), hasExp, exptxt)

\* The text after the sign; lower is its lower-case form.
Unsigned(sign, body, lower) ==
    IF lower = Str("inf") \/ lower = Str("infinity")
    THEN Returned(DecSpecial(sign, <<0>>, "F"))
    ELSE IF StartsWith(lower, Str("nan")) /\ AllDigits(From(body, 4))
    THEN Returned(DecSpecial(sign, LStripZeros(DigitsOf(From(body, 4))), "n"))
    ELSE IF StartsWith(lower, Str("snan")) /\ AllDigits(From(body, 5))
    THEN Returned(DecSpecial(sign, LStripZeros(DigitsOf(From(body, 5))), "N"))
    ELSE Number(sign, SubSeq(body, 1, IndexOf(lower, "e") - 1),
                IndexOf(lower, "e") <= Len(lower),
                From(body, IndexOf(lower, "e") + 1))

\* The text without white space and underscores.
Signed(t) ==
    IF Len(t) > 0 /\ t[1] = "-" THEN Unsigned(1, Tail(t), StrLower(Tail(t)))
    ELSE IF Len(t) > 0 /\ t[1] = "+"
    THEN Unsigned(0, Tail(t), StrLower(Tail(t)))
    ELSE Unsigned(0, t, StrLower(t))

DecimalCtor(s) == Signed(SelectSeq(Strip(Texto(s)), LAMBDA c : c # "_"))

(***************************************************************************)
(* leer_archivo_csv.  A file is its state on disk (estado), the columns of *)
(* its header and its data rows; orden is the iteration order of the set   *)
(* of required columns, used only in the diagnostic.  "<e>" stands for the *)
(* text of an exception raised by the operating system or the codec.       *)
(***************************************************************************)
columnas_requeridas == {"id", "tipo", "monto"}

\* Variant: the missing-column branch prints its diagnostic but falls through
\* to the rows instead of returning None.
leer_archivo_csv_sin_return(nombre, arch, orden) ==
    IF arch.estado = "no_existe"
    THEN [value |-> None,
          salida |-> PyPrint(Str("Error: No se pudo encontrar el archivo '")
                             \o nombre \o Str("'"))]
    ELSE IF arch.estado = "error_lectura"
    THEN [value |-> None,
          salida |-> PyPrint(Str("Error inesperado al leer el archivo: ")
                             \o Str("<e>"))]
    ELSE IF ~(columnas_requeridas \subseteq arch.columnas)
    THEN [value |-> Some(arch.filas),
          salida |-> PyPrint(
              Str("Error: El archivo CSV debe contener las columnas: ")
              \o Str(orden[1]) \o Str(", ") \o Str(orden[2]) \o Str(", ")
              \o Str(orden[3]))]
    ELSE [value |-> Some(arch.filas), salida |-> <<>>]

leer_archivo_csv(nombre, arch, orden) ==
    IF arch.estado = "no_existe"
    THEN [value |-> None,
          salida |-> PyPrint(Str("Error: No se pudo encontrar el archivo '")
                             \o nombre \o Str("'"))]
    ELSE IF arch.estado = "error_lectura"
    THEN [value |-> None,
          salida |-> PyPrint(Str("Error inesperado al leer el archivo: ")
                             \o Str("<e>"))]
    ELSE IF ~(columnas_requeridas \subseteq arch.columnas)
    THEN [value |-> None,
          salida |-> PyPrint(
              Str("Error: El archivo CSV debe contener las columnas: ")
              \o Str(orden[1]) \o Str(", ") \o Str(orden[2]) \o Str(", ")
              \o Str(orden[3]))]
    ELSE [value |-> Some(arch.filas), salida |-> <<>>]

(***************************************************************************)
(* validar_monto.  The handler catches ValueError only; any other          *)
(* exception raised by Decimal(monto_str) propagates to the caller.        *)
(***************************************************************************)
\* The exception class and its base classes.
ExceptionBases(e) ==
    IF e = "InvalidOperation"
    THEN {"InvalidOperation", "DecimalException", "ArithmeticError",
          "Exception", "BaseException"}
    ELSE IF e = "Overflow"
    THEN {"Overflow", "Inexact", "Rounded", "DecimalException",
          "ArithmeticError", "Exception", "BaseException"}
    ELSE {e, "Exception", "BaseException"}

validar_monto(monto_str, id_transaccion) ==
    LET r == DecimalCtor(monto_str)
    IN  IF r.kind = "return" THEN Returned(Some(r.value))
        ELSE IF "ValueError" \in ExceptionBases(r.exc)
        THEN [kind |-> "return", value |-> None, exc |-> "",
              salida |-> PyPrint(Str("Error: Monto inválido en la transacción ")
                                 \o id_transaccion \o Str(": ") \o monto_str)]
        ELSE Raised(r.exc)

(***************************************************************************)
(* clasificar_transaccion.                                                 *)
(***************************************************************************)
\* Variant: only the unaccented spellings are compared.
clasificar_sin_acento(t) ==
    LET tipo_lower == StrLower(t)
    IN  IF tipo_lower = Str("credito") THEN "credito"
        ELSE IF tipo_lower = Str("debito") THEN "debito"
        ELSE "desconocido"

clasificar_transaccion(t) ==
    LET tipo_lower == StrLower(t)
    IN  IF tipo_lower = Str("crédito") \/ tipo_lower = Str("credito")
        THEN "credito"
        ELSE IF tipo_lower = Str("débito") \/ tipo_lower = Str("debito")
        THEN "debito"
        ELSE "desconocido"

(***************************************************************************)
(* calcular_estadisticas: the pieces of one loop iteration and the result. *)
(* Each piece gives the values after it and the exception it raised, if    *)
(* any (exc = "" when none).                                               *)
(***************************************************************************)
Sumas(e, sc, cc, sd, cd) ==
    [exc |-> e, suma_creditos |-> sc, contador_creditos |-> cc,
     suma_debitos |-> sd, contador_debitos |-> cd]

\* Variant: a debit is subtracted from the debit sum.
AcumularResta(t, m, sc, cc, sd, cd) ==
    LET c == DecAdd(sc, m)
        d == DecSub(sd, m)
    IN  IF t = "credito"
        THEN IF c.kind = "raise" THEN Sumas(c.exc, sc, cc, sd, cd)
             ELSE Sumas("", c.value, cc + 1, sd, cd)
        ELSE IF t = "debito"
        THEN IF d.kind = "raise" THEN Sumas(d.exc, sc, cc, sd, cd)
             ELSE Sumas("", sc, cc, d.value, cd + 1)
        ELSE Sumas("", sc, cc, sd, cd)

\* Variant: every row that is not a credit is taken as a debit.
AcumularResto(t, m, sc, cc, sd, cd) ==
    LET c == DecAdd(sc, m)
        d == DecAdd(sd, m)
    IN  IF t = "credito"
        THEN IF c.kind = "raise" THEN Sumas(c.exc, sc, cc, sd, cd)
             ELSE Sumas("", c.value, cc + 1, sd, cd)
        ELSE IF d.kind = "raise" THEN Sumas(d.exc, sc, cc, sd, cd)
             ELSE Sumas("", sc, cc, d.value, cd + 1)

\* Lines 110-115: the sums and counters after a row of category t, amount m.
\* When += raises, neither the sum nor the counter of the row has changed.
Acumular(t, m, sc, cc, sd, cd) ==
    LET c == DecAdd(sc, m)
        d == DecAdd(sd, m)
    IN  IF t = "credito"
        THEN IF c.kind = "raise" THEN Sumas(c.exc, sc, cc, sd, cd)
             ELSE Sumas("", c.value, cc + 1, sd, cd)
        ELSE IF t = "debito"
        THEN IF d.kind = "raise" THEN Sumas(d.exc, sc, cc, sd, cd)
             ELSE Sumas("", sc, cc, d.value, cd + 1)
        ELSE Sumas("", sc, cc, sd, cd)

\* Lines 116-117: the warning for a row of unknown category.
Advertencia(transaccion) ==
    PyPrint(Str("Advertencia: Tipo de transacción desconocido: ")
            \o transaccion.tipo \o Str(" en ID: ") \o transaccion.id)

\* Variant: rows of unknown category are left out of the comparison.
ActualizarMayorSoloClasificadas(mayor, transaccion, m) ==
    LET gt == DecGt(m, mayor.monto)
    IN  IF gt.kind = "raise" THEN [exc |-> gt.exc, mayor |-> mayor]
        ELSE IF clasificar_transaccion(transaccion.tipo) # "desconocido"
                /\ gt.value
        THEN [exc |-> "", mayor |-> [id |-> Some(transaccion.id), monto |-> m]]
        ELSE [exc |-> "", mayor |-> mayor]

\* Variant: the comparison is >= instead of >.
ActualizarMayorUltimo(mayor, transaccion, m) ==
    LET gt == DecGt(m, mayor.monto)
    IN  IF gt.kind = "raise" THEN [exc |-> gt.exc, mayor |-> mayor]
        ELSE IF DecCmp(m, mayor.monto) >= 0
        THEN [exc |-> "", mayor |-> [id |-> Some(transaccion.id), monto |-> m]]
        ELSE [exc |-> "", mayor |-> mayor]

\* Variant: the first parsed row replaces the initial (None, 0) whatever its
\* amount.
ActualizarMayorPrimero(mayor, transaccion, m) ==
    LET gt == DecGt(m, mayor.monto)
    IN  IF gt.kind = "raise" THEN [exc |-> gt.exc, mayor |-> mayor]
        ELSE IF IsNone(mayor.id) \/ gt.value
        THEN [exc |-> "", mayor |-> [id |-> Some(transaccion.id), monto |-> m]]
        ELSE [exc |-> "", mayor |-> mayor]

\* Lines 119-122: the running maximum after a row with parsed amount m.
ActualizarMayor(mayor, transaccion, m) ==
    LET gt == DecGt(m, mayor.monto)
    IN  IF gt.kind = "raise" THEN [exc |-> gt.exc, mayor |-> mayor]
        ELSE IF gt.value
        THEN [exc |-> "", mayor |-> [id |-> Some(transaccion.id), monto |-> m]]
        ELSE [exc |-> "", mayor |-> mayor]

\* Variant: the debits are added instead of subtracted.
BalanceFinalSuma(creditos, debitos) == DecAdd(creditos, debitos)

\* Line 125.
BalanceFinal(creditos, debitos) == DecSub(creditos, debitos)

\* Lines 128-135.
Resultado(sc, sd, balance, mayor, cc, cd) ==
    [suma_creditos |-> sc, suma_debitos |-> sd,
     balance_final |-> balance,
     transaccion_mayor |-> mayor,
     contador_creditos |-> cc, contador_debitos |-> cd]

(***************************************************************************)
(* generar_reporte and guardar_reporte: the text each one produces.        *)
(***************************************************************************)
IdStr(o) == IF IsNone(o) THEN Str("None") ELSE Val(o)

generar_reporte(e) ==
    PyPrint(Str("\n===== REPORTE DE TRANSACCIONES BANCARIAS ====="))
    \o PyPrint(Str("\nResumen de Montos:"))
    \o PyPrint(Str("  - Total Créditos: $") \o DecStr(e.suma_creditos))
    \o PyPrint(Str("  - Total Débitos: $") \o DecStr(e.suma_debitos))
    \o PyPrint(Str("Balance Final: $") \o DecStr(e.balance_final))
    \o PyPrint(Str("\nTransacción de Mayor Monto: ID ")
               \o IdStr(e.transaccion_mayor.id) \o Str(" con $")
               \o DecStr(e.transaccion_mayor.monto))
    \o PyPrint(Str("\nConteo de Transacciones:"))
    \o PyPrint(Str("  - Créditos: ") \o IntStr(e.contador_creditos))
    \o PyPrint(Str("  - Débitos: ") \o IntStr(e.contador_debitos))
    \o PyPrint(Str("  - Total: ")
               \o IntStr(e.contador_creditos + e.contador_debitos))

\* The text guardar_reporte writes when every write succeeds, by section.
EncabezadoArchivo ==
    Str("===== REPORTE DE TRANSACCIONES BANCARIAS =====\n")

ResumenArchivo(e) ==
    Str("\nResumen de Montos:\n")
    \o Str("  - Total Créditos: $") \o DecStr(e.suma_creditos) \o Str("\n")
    \o Str("  - Total Débitos: $") \o DecStr(e.suma_debitos) \o Str("\n")
    \o Str("Balance Final: $") \o DecStr(e.balance_final) \o Str("\n")

MayorArchivo(e) ==
    Str("\nTransacción de Mayor Monto: ID ")
    \o IdStr(e.transaccion_mayor.id) \o Str(" con $")
    \o DecStr(e.transaccion_mayor.monto) \o Str("\n")

\* Variant: the file lacks the line of the total.
ConteoArchivoSinTotal(e) ==
    Str("\nConteo de Transacciones:\n")
    \o Str("  - Créditos: ") \o IntStr(e.contador_creditos) \o Str("\n")
    \o Str("  - Débitos: ") \o IntStr(e.contador_debitos) \o Str("\n")

ConteoArchivo(e) ==
    Str("\nConteo de Transacciones:\n")
    \o Str("  - Créditos: ") \o IntStr(e.contador_creditos) \o Str("\n")
    \o Str("  - Débitos: ") \o IntStr(e.contador_debitos) \o Str("\n")
    \o Str("  - Total: ")
    \o IntStr(e.contador_creditos + e.contador_debitos) \o Str("\n")

TextoArchivo(e) ==
    EncabezadoArchivo \o ResumenArchivo(e) \o MayorArchivo(e)
    \o ConteoArchivo(e)

\* guardar_reporte: what this run leaves at the output path and what is
\* printed.  falla is where the operating system fails: "open" (the file is
\* neither created nor truncated), "write" (open has created or truncated
\* the file and only the first `escritos` bytes of the report reach it) or
\* "" (no failure).  The file is None while this run has not opened it.
guardar_reporte(e, nombre_archivo_salida, falla, escritos) ==
    LET bytes == Utf8(TextoArchivo(e))
    IN  IF falla = "open"
        THEN [archivo |-> None,
              salida |-> PyPrint(Str("Error al guardar el reporte: ")
                                 \o Str("<e>"))]
        ELSE IF falla = "write"
        THEN [archivo |->
                  Some([nombre |-> nombre_archivo_salida,
                        contenido |->
                            SubSeq(bytes, 1, Min(escritos, Len(bytes)))]),
              salida |-> PyPrint(Str("Error al guardar el reporte: ")
                                 \o Str("<e>"))]
        ELSE [archivo |-> Some([nombre |-> nombre_archivo_salida,
                                contenido |-> bytes]),
              salida |-> PyPrint(Str("\nReporte guardado exitosamente en '")
                                 \o nombre_archivo_salida \o Str("'"))]

\* Lines 225-226.
NombreSalida(nombre) == SplitFirst(nombre) \o Str("_reporte.txt")

\* Line 223: the prompt of input().
Pregunta == Str("\n¿Desea guardar el reporte en un archivo? (s/n): ")

(***************************************************************************)
(* Inputs.                                                                 *)
(***************************************************************************)
Credito == Str("credito")
CreditoAcento == Str("crédito")
Debito == Str("debito")
DebitoAcento == Str("débito")
Transferencia == Str("transferencia")

Tipos == {Credito, Str("Débito"), Transferencia}

\* Amounts: not a number, negative, zero, fifty written with white space and
\* an exponent, and a quiet NaN.
Montos == {Str("abc"), Str("-5"), Str("0"), Str(" 5E1"), Str("NaN")}

\* The upper-case form of a lower-case letter, and all case variants of a
\* lower-case word.
Mayuscula(c) ==
    IF \E k \in 1..Len(LowerChars) : LowerChars[k] = c
    THEN UpperChars[CHOOSE k \in 1..Len(LowerChars) : LowerChars[k] = c]
    ELSE c
Variantes(w) ==
    {[i \in 1..Len(w) |-> IF i \in U THEN Mayuscula(w[i]) ELSE w[i]]
        : U \in SUBSET (1..Len(w))}

\* Inputs of the classification study: every case variant of the four
\* spellings, and values that are none of them; the amounts are numbers (one
\* with an underscore), not a number, a number above the exponent range of
\* the context and an infinity.
TiposTodos ==
    Variantes(Credito) \cup Variantes(CreditoAcento)
    \cup Variantes(Debito) \cup Variantes(DebitoAcento)
    \cup {Transferencia, <<>>, Str("credit"), Str("creditos"),
          Str(" credito"), Str("debito "), Str("crédító"), Str("DEBIT"),
          Str("débíto"), Str("CRÈDITO"), Str("DÊBITO"), Str("cre_dito")}
MontosTipos == {Str("7"), Str("abc"), Str("1e1000000"), Str("1_000.50"),
                Str("-Infinity")}

\* Inputs of the arithmetic study: amounts at the edge of the 28 significant
\* digits of the default decimal context, the infinities and a signaling
\* NaN.
Nueves == [i \in 1..Prec |-> "9"]
MontosPrec == {Str("1"), Str("0.5"), Nueves, Str("Infinity"), Str("-inf"),
               Str("sNaN")}
TiposPrec == {Credito, DebitoAcento}

NombrePrograma == Str("movimientos.py")
Argvs == {<<NombrePrograma>>, <<NombrePrograma, Str("datos.v1.csv")>>}

\* What input() does: it returns the line typed, or raises EOFError when the
\* standard input is at its end.
Respuestas == {Str("s"), Str("S"), Str("n"), Str("si"), <<>>}
Entradas == {Returned(r) : r \in Respuestas} \cup {Raised("EOFError")}

\* Where saving fails, and the bytes written before a failed write (the
\* second cut is inside the two bytes of the first accented letter).
Fallas == {"", "open", "write"}
Cortes == {0, 60, 80, 120}

\* The rows of a file of k rows, given the type and amount of each: the id
\* of a row is its position in the file.
FilasCon(f, k) ==
    [i \in 1..k |->
        [id |-> Str(ToString(i)), tipo |-> f[i][1], monto |-> f[i][2]]]

\* Files: the state on disk, the header and the number of rows.  Files that
\* fail to load are tried with at most one row.
Estados == {"ok", "error_lectura", "no_existe"}
Encabezados == {columnas_requeridas, columnas_requeridas \cup {"fecha"},
                {"id", "tipo"}, {"id", "monto", "fecha"}, {"monto"}}
Largos == 0..MaxRows
Cortos == {0, 1}
Archivo(estado, columnas, filas) ==
    [estado |-> estado,
     columnas |-> IF estado = "no_existe" THEN {} ELSE columnas,
     filas |-> IF estado = "no_existe" THEN <<>> ELSE filas]

Ordenes == {<<"id", "tipo", "monto">>, <<"id", "monto", "tipo">>,
            <<"tipo", "id", "monto">>, <<"tipo", "monto", "id">>,
            <<"monto", "id", "tipo">>, <<"monto", "tipo", "id">>}

(***************************************************************************)
(* The state machine.                                                      *)
(***************************************************************************)
Init ==
    /\ pc = "inicio"
    /\ nombre_archivo = None
    /\ archivo = [estado |-> "sin_abrir", columnas |-> {}]
    /\ transacciones = None
    /\ idx = 0
    /\ monto = None
    /\ tipo = ""
    /\ suma_creditos = DecZero
    /\ suma_debitos = DecZero
    /\ transaccion_mayor = [id |-> None, monto |-> DecZero]
    /\ contador_creditos = 0
    /\ contador_debitos = 0
    /\ estadisticas = None
    /\ consola = <<>>
    /\ archivo_salida = None
    /\ excepcion = ""

\* main: without an argument print the usage text and return.
Main ==
    /\ pc = "inicio"
    /\ \E argv \in Argvs :
          IF Len(argv) < 2
          THEN /\ consola' = consola
                      \o PyPrint(Str("Uso: python procesador_transacciones.py [archivo_csv]"))
                      \o PyPrint(Str("Ejemplo: python procesador_transacciones.py transacciones.csv"))
               /\ pc' = "fin"
               /\ UNCHANGED nombre_archivo
          ELSE /\ nombre_archivo' = Some(argv[2])
               /\ pc' = "leer"
               /\ UNCHANGED consola
    /\ UNCHANGED <<archivo, transacciones, idx, monto, tipo, suma_creditos,
                   suma_debitos, transaccion_mayor, contador_creditos,
                   contador_debitos, estadisticas, archivo_salida, excepcion>>

\* procesar_archivo_csv, lines 209-214: load the file; return on None.  The
\* file has amounts from M, types from T and a number of rows from L.
Cargar(M, T, L) ==
    /\ pc = "leer"
    /\ \E estado \in Estados, columnas \in Encabezados :
       \E k \in (IF estado = "ok" /\ columnas = columnas_requeridas
                 THEN L ELSE L \cap Cortos) :
       \E f \in [1..k -> T \X M] :
       \E orden \in (IF estado = "ok"
                        /\ ~(columnas_requeridas \subseteq columnas)
                     THEN Ordenes ELSE {<<"id", "tipo", "monto">>}) :
          LET arch == Archivo(estado, columnas, FilasCon(f, k))
              r == leer_archivo_csv(Val(nombre_archivo), arch, orden)
          IN  /\ archivo' = [estado |-> arch.estado, columnas |-> arch.columnas]
              /\ transacciones' = r.value
              /\ consola' = consola \o r.salida
              /\ pc' = IF IsNone(r.value) THEN "fin" ELSE "calcular"
    /\ UNCHANGED <<nombre_archivo, idx, monto, tipo, suma_creditos,
                   suma_debitos, transaccion_mayor, contador_creditos,
                   contador_debitos, estadisticas, archivo_salida, excepcion>>

\* Lines 119-122 of an iteration whose lines 110-117 ran: the comparison,
\* which updates the maximum and ends the iteration, or raises.
Comparar(transaccion, m, t, a, mayor) ==
    /\ monto' = Some(m)
    /\ tipo' = t
    /\ suma_creditos' = a.suma_creditos
    /\ contador_creditos' = a.contador_creditos
    /\ suma_debitos' = a.suma_debitos
    /\ contador_debitos' = a.contador_debitos
    /\ consola' = IF t = "desconocido"
                  THEN consola \o Advertencia(transaccion) ELSE consola
    /\ IF mayor.exc # ""
       THEN /\ pc' = "excepcion"
            /\ excepcion' = mayor.exc
            /\ UNCHANGED <<idx, transaccion_mayor>>
       ELSE /\ transaccion_mayor' = mayor.mayor
            /\ idx' = idx + 1
            /\ UNCHANGED <<pc, excepcion>>

\* Lines 106-122 for a row whose amount is m and whose category is t; a is
\* the outcome of lines 110-115.
Clasificar(transaccion, m, t, a) ==
    IF a.exc # ""
    THEN /\ pc' = "excepcion"
         /\ excepcion' = a.exc
         /\ monto' = Some(m)
         /\ tipo' = t
         /\ UNCHANGED <<idx, suma_creditos, suma_debitos, transaccion_mayor,
                        contador_creditos, contador_debitos, consola>>
    ELSE Comparar(transaccion, m, t, a,
                  ActualizarMayor(transaccion_mayor, transaccion, m))

\* Lines 102-122 for one row; r is the outcome of validar_monto.
Iterar(transaccion, r) ==
    IF r.kind = "raise"
    THEN /\ pc' = "excepcion"
         /\ excepcion' = r.exc
         /\ UNCHANGED <<idx, monto, tipo, suma_creditos, suma_debitos,
                        transaccion_mayor, contador_creditos,
                        contador_debitos, consola>>
    ELSE IF IsNone(r.value)
    THEN \* continue
         /\ idx' = idx + 1
         /\ monto' = None
         /\ consola' = consola \o r.salida
         /\ UNCHANGED <<pc, tipo, suma_creditos, suma_debitos,
                        transaccion_mayor, contador_creditos,
                        contador_debitos, excepcion>>
    ELSE Clasificar(transaccion, Val(r.value),
                    clasificar_transaccion(transaccion.tipo),
                    Acumular(clasificar_transaccion(transaccion.tipo),
                             Val(r.value), suma_creditos, contador_creditos,
                             suma_debitos, contador_debitos))

\* calcular_estadisticas, lines 100-122: one iteration of the loop, or the
\* part of it that runs before an exception leaves the function and the
\* program: from Decimal() (line 102), from += (lines 111, 114) or from the
\* comparison (line 120).
ProcesarFila ==
    /\ pc = "calcular"
    /\ idx < Len(Val(transacciones))
    /\ Iterar(Val(transacciones)[idx + 1],
              validar_monto(Val(transacciones)[idx + 1].monto,
                            Val(transacciones)[idx + 1].id))
    /\ UNCHANGED <<nombre_archivo, archivo, transacciones, estadisticas,
                   archivo_salida>>

\* calcular_estadisticas, lines 124-135: the balance and the returned dict,
\* or the exception of the subtraction.
Retornar ==
    /\ pc = "calcular"
    /\ idx = Len(Val(transacciones))
    /\ LET b == BalanceFinal(suma_creditos, suma_debitos)
       IN  IF b.kind = "raise"
           THEN /\ pc' = "excepcion"
                /\ excepcion' = b.exc
                /\ UNCHANGED estadisticas
           ELSE /\ estadisticas' =
                       Some(Resultado(suma_creditos, suma_debitos, b.value,
                                      transaccion_mayor, contador_creditos,
                                      contador_debitos))
                /\ pc' = "reportar"
                /\ UNCHANGED excepcion
    /\ UNCHANGED <<nombre_archivo, archivo, transacciones, idx, monto, tipo,
                   suma_creditos, suma_debitos, transaccion_mayor,
                   contador_creditos, contador_debitos, consola,
                   archivo_salida>>

\* procesar_archivo_csv, line 220: print the report.
Reportar ==
    /\ pc = "reportar"
    /\ consola' = consola \o generar_reporte(Val(estadisticas))
    /\ pc' = "preguntar"
    /\ UNCHANGED <<nombre_archivo, archivo, transacciones, idx, monto, tipo,
                   suma_creditos, suma_debitos, transaccion_mayor,
                   contador_creditos, contador_debitos, estadisticas,
                   archivo_salida, excepcion>>

\* procesar_archivo_csv, lines 223-224: print the prompt and read the
\* answer; the EOFError of input() leaves the program.
Preguntar ==
    /\ pc = "preguntar"
    /\ consola' = consola \o Pregunta
    /\ \E entrada \in Entradas :
          IF entrada.kind = "raise"
          THEN /\ pc' = "excepcion"
               /\ excepcion' = entrada.exc
          ELSE /\ pc' = IF StrLower(entrada.value) = Str("s")
                        THEN "guardar" ELSE "fin"
               /\ UNCHANGED excepcion
    /\ UNCHANGED <<nombre_archivo, archivo, transacciones, idx, monto, tipo,
                   suma_creditos, suma_debitos, transaccion_mayor,
                   contador_creditos, contador_debitos, estadisticas,
                   archivo_salida>>

\* procesar_archivo_csv, lines 225-227: derive the name and save the report.
Guardar ==
    /\ pc = "guardar"
    /\ \E falla \in Fallas :
       \E escritos \in (IF falla = "write" THEN Cortes ELSE {0}) :
          LET r == guardar_reporte(Val(estadisticas),
                                   NombreSalida(Val(nombre_archivo)),
                                   falla, escritos)
          IN  /\ archivo_salida' = r.archivo
              /\ consola' = consola \o r.salida
    /\ pc' = "fin"
    /\ UNCHANGED <<nombre_archivo, archivo, transacciones, idx, monto, tipo,
                   suma_creditos, suma_debitos, transaccion_mayor,
                   contador_creditos, contador_debitos, estadisticas,
                   excepcion>>

Next ==
    \/ Main
    \/ Cargar(Montos, Tipos, Largos)
    \/ ProcesarFila
    \/ Retornar
    \/ Reportar
    \/ Preguntar
    \/ Guardar

Spec == Init /\ [][Next]_vars

\* The same program on the inputs of the arithmetic study.
NextPrec ==
    \/ Main
    \/ Cargar(MontosPrec, TiposPrec, Largos)
    \/ ProcesarFila
    \/ Retornar
    \/ Reportar
    \/ Preguntar
    \/ Guardar

SpecPrec == Init /\ [][NextPrec]_vars

\* The same program on one-row files over the inputs of the classification
\* study.
NextTipos ==
    \/ Main
    \/ Cargar(MontosTipos, TiposTodos, Cortos)
    \/ ProcesarFila
    \/ Retornar
    \/ Reportar
    \/ Preguntar
    \/ Guardar

SpecTipos == Init /\ [][NextTipos]_vars

(***************************************************************************)
(* Properties.  Filas are the rows handed to calcular_estadisticas; rows   *)
(* 1..idx are the ones whose loop iteration has completed.                 *)
(***************************************************************************)
Filas == IF IsNone(transacciones) THEN <<>> ELSE Val(transacciones)
Parsea(i) == DecimalCtor(Filas[i].monto).kind = "return"
MontoDe(i) == DecimalCtor(Filas[i].monto).value
Cat(i) == clasificar_transaccion(Filas[i].tipo)
Clasificada(i) == Cat(i) \in {"credito", "debito"}
Hechas == 1..idx
EnCurso == pc = "calcular" /\ idx < Len(Filas)
MayorInicial == [id |-> None, monto |-> DecZero]
MayorDeFila(i) == [id |-> Some(Filas[i].id), monto |-> MontoDe(i)]
Retornado == ~IsNone(estadisticas)

\* Numerical order and equality of two values that are not NaN.
Mayor(a, b) == DecCmp(a, b) > 0
Igual(a, b) == DecCmp(a, b) = 0

\* The positions where a text occurs in another, and the first of them.
Ocurrencias(texto, parte) ==
    {i \in 1..(Len(texto) - Len(parte) + 1) :
        texto[i] = parte[1] /\ SubSeq(texto, i, i + Len(parte) - 1) = parte}
Contiene(texto, parte) == Ocurrencias(texto, parte) # {}
Primera(texto, parte) ==
    CHOOSE i \in Ocurrencias(texto, parte) :
        \A j \in Ocurrencias(texto, parte) : i <= j

\* Row k has the greatest amount among the rows S, and is the first such.
PrimeraMaxima(k, S) ==
    /\ k \in S
    /\ \A j \in S : \/ Mayor(MontoDe(k), MontoDe(j))
                    \/ (Igual(MontoDe(k), MontoDe(j)) /\ k <= j)

----------------------------------------------------------------------------
\* C1: a row whose monto cannot be parsed as a decimal number is a row-level,
\* non-fatal failure: the iteration prints a diagnostic, leaves both sums,
\* both counters and the largest transaction as they were, and the loop goes
\* on to the next row.
C1_InvalidRowSkipped ==
    [][(EnCurso /\ ~Parsea(idx + 1))
        => /\ pc' = "calcular"
           /\ idx' = idx + 1
           /\ consola' # consola
           /\ UNCHANGED <<suma_creditos, suma_debitos, contador_creditos,
                          contador_debitos, transaccion_mayor>>]_vars

----------------------------------------------------------------------------
\* C2 (as stated): the id reported as transaccion_mayor always belongs to a
\* row classified as credito or debito, never to a row of unknown category.
C2_MayorNeverUnknown ==
    ~IsNone(transaccion_mayor.id)
        => \E i \in Hechas : /\ transaccion_mayor.id = Some(Filas[i].id)
                             /\ Clasificada(i)

\* C2 (amended): rows of unknown category take part in the comparison.  The
\* reported largest transaction is the initial (None, 0) or the id and amount
\* of a processed row whose amount parsed, whatever its category; and an
\* unknown-category row whose amount is above zero and above every other
\* processed amount is the one reported.
C2_MayorAnyCategory ==
    /\ \/ transaccion_mayor = MayorInicial
       \/ \E i \in Hechas : Parsea(i) /\ transaccion_mayor = MayorDeFila(i)
    /\ \A i \in Hechas :
          ( /\ Cat(i) = "desconocido"
            /\ Mayor(MontoDe(i), DecZero)
            /\ \A j \in Hechas \ {i} : Mayor(MontoDe(i), MontoDe(j)) )
          => transaccion_mayor = MayorDeFila(i)
    /\ Retornado => Val(estadisticas).transaccion_mayor = transaccion_mayor

\* An unknown-category row is returned as the largest transaction although
\* credit and debit rows were processed too.
C2_Witness ==
    /\ Retornado
    /\ \E i \in Hechas : /\ Cat(i) = "desconocido"
                         /\ Val(estadisticas).transaccion_mayor = MayorDeFila(i)
    /\ \E j \in Hechas : Clasificada(j)

----------------------------------------------------------------------------
\* C3 (as stated): the largest transaction is the row with the maximum
\* parsed amount among all credit and debit rows, the first one in input
\* order when several share that amount (none when there is no such row).
C3_MaxAmongClassified ==
    LET CD == {i \in Hechas : Clasificada(i)}
    IN  /\ CD = {} => IsNone(transaccion_mayor.id)
        /\ \A k \in CD :
              PrimeraMaxima(k, CD) => transaccion_mayor = MayorDeFila(k)

\* C3 (amended): the largest transaction is the first row in input order
\* carrying the maximum parsed amount among all successfully parsed rows of
\* any category (credito, debito or desconocido), provided that amount is
\* strictly greater than zero; when no parsed amount is above zero it is the
\* initial (None, 0).
C3_FirstMaxAmongParsed ==
    LET Pos == {i \in Hechas : Parsea(i) /\ Mayor(MontoDe(i), DecZero)}
    IN  /\ Pos = {} => transaccion_mayor = MayorInicial
        /\ \A k \in Pos :
              PrimeraMaxima(k, Pos) => transaccion_mayor = MayorDeFila(k)
        /\ Retornado => Val(estadisticas).transaccion_mayor = transaccion_mayor

\* Two rows of different categories share the greatest amount and the
\* earlier one is returned.
C3_Witness ==
    /\ Retornado
    /\ \E i, j \in Hechas :
          /\ i < j
          /\ Cat(i) # Cat(j)
          /\ Igual(MontoDe(i), MontoDe(j))
          /\ PrimeraMaxima(i, Hechas)
          /\ Val(estadisticas).transaccion_mayor = MayorDeFila(i)

----------------------------------------------------------------------------
\* C4 (as stated): in every returned summary total_credits >= 0 and
\* total_debits >= 0, for every input whose amounts all parse.
C4_SumsNonNegative ==
    Retornado
        => /\ DecCmp(Val(estadisticas).suma_creditos, DecZero) >= 0
           /\ DecCmp(Val(estadisticas).suma_debitos, DecZero) >= 0

\* C4 (amended): in every returned summary total_credits >= 0 and
\* total_debits >= 0 provided no credit or debit row carries a negative
\* amount; a signed amount is accepted as it is and is added to its sum.
C4_SumsNonNegativeIfAmountsAre ==
    (Retornado /\ \A i \in Hechas :
                     Clasificada(i) => DecCmp(MontoDe(i), DecZero) >= 0)
        => /\ DecCmp(Val(estadisticas).suma_creditos, DecZero) >= 0
           /\ DecCmp(Val(estadisticas).suma_debitos, DecZero) >= 0

\* A summary over credit and debit rows with amounts above zero, next to an
\* unknown-category row with a negative amount.
C4_Witness ==
    /\ Retornado
    /\ \E i, j, k \in Hechas :
          /\ Cat(i) = "credito" /\ Mayor(MontoDe(i), DecZero)
          /\ Cat(j) = "debito" /\ Mayor(MontoDe(j), DecZero)
          /\ Cat(k) = "desconocido" /\ Mayor(DecZero, MontoDe(k))
    /\ \A i \in Hechas : Clasificada(i) => DecCmp(MontoDe(i), DecZero) >= 0

----------------------------------------------------------------------------
\* The exact (unrounded) sum of two values: at the smaller of the two
\* exponents when both are finite; an infinity absorbs a finite value.
DecAddExact(a, b) ==
    LET e == Min(a.exp, b.exp)
        A == a.int \o Zeros(a.exp - e)
        B == b.int \o Zeros(b.exp - e)
        c == CmpInt(A, B)
    IN  IF a.special # "" THEN a
        ELSE IF b.special # "" THEN b
        ELSE IF IsZero(a) /\ IsZero(b) THEN Dec(Min(a.sign, b.sign), <<0>>, e)
        ELSE IF a.sign = b.sign THEN Dec(a.sign, AddInt(A, B), e)
        ELSE IF c = 0 THEN Dec(0, <<0>>, e)
        ELSE IF c > 0 THEN Dec(a.sign, SubInt(A, B), e)
        ELSE Dec(b.sign, SubInt(B, A), e)

\* The exact sum of the amounts of the rows of category c among the first k
\* rows, the exact difference, and the number of significant digits of a
\* value.
RECURSIVE SumaExacta(_, _)
SumaExacta(c, k) ==
    IF k = 0 THEN DecZero
    ELSE IF Cat(k) = c THEN DecAddExact(SumaExacta(c, k - 1), MontoDe(k))
    ELSE SumaExacta(c, k - 1)
RestaExacta(a, b) == DecAddExact(a, DecNeg(b))
Significativos(d) ==
    LET nz == {i \in 1..Len(d.int) : d.int[i] # 0}
    IN  IF nz = {} THEN 1 ELSE CHOOSE i \in nz : \A j \in nz : j <= i

\* C5 (as stated): the returned total_credits and total_debits are the exact
\* sums of the parsed amounts of the credit and of the debit rows, and the
\* returned final_balance is exactly their difference.
C5_ExactSums ==
    Retornado
        => /\ Igual(Val(estadisticas).suma_creditos, SumaExacta("credito", idx))
           /\ Igual(Val(estadisticas).suma_debitos, SumaExacta("debito", idx))
           /\ Igual(Val(estadisticas).balance_final,
                    RestaExacta(Val(estadisticas).suma_creditos,
                                Val(estadisticas).suma_debitos))

\* A value the decimal context holds without rounding: at most Prec
\* significant digits and no digit below 10^Etiny.
Cabe(d) ==
    \/ d.special # ""
    \/ IsZero(d)
    \/ (Significativos(d) <= Prec /\ d.exp + Len(d.int) - Significativos(d) >= Etiny)

\* Every running sum of the credits and of the debits, and their difference,
\* is held without rounding.
CabeEnPrecision ==
    /\ \A k \in Hechas :
          /\ Cabe(SumaExacta("credito", k))
          /\ Cabe(SumaExacta("debito", k))
    /\ Cabe(RestaExacta(SumaExacta("credito", idx), SumaExacta("debito", idx)))

\* C5 (amended): the returned sums are the exact sums of the parsed credit
\* and debit amounts and final_balance is exactly their difference (negative
\* when the debits are larger, never clamped), provided every running sum
\* and the difference need at most 28 significant digits, the precision of
\* the decimal context in force, and no digit below its smallest exponent; a
\* result that needs more is rounded.
C5_ExactWithinPrecision ==
    (Retornado /\ CabeEnPrecision)
        => /\ Igual(Val(estadisticas).suma_creditos, SumaExacta("credito", idx))
           /\ Igual(Val(estadisticas).suma_debitos, SumaExacta("debito", idx))
           /\ Igual(Val(estadisticas).balance_final,
                    RestaExacta(SumaExacta("credito", idx),
                                SumaExacta("debito", idx)))

\* A negative balance over decimal amounts: the debits exceed the credits
\* and everything fits the precision.
C5_Witness ==
    /\ Retornado
    /\ CabeEnPrecision
    /\ Val(estadisticas).contador_creditos >= 1
    /\ Val(estadisticas).contador_debitos >= 1
    /\ Val(estadisticas).balance_final.special = ""
    /\ Val(estadisticas).balance_final.sign = 1
    /\ Val(estadisticas).balance_final.exp < 0

----------------------------------------------------------------------------
\* C6: when loading the input file fails (file not found, another read or
\* decoding failure, or a header lacking id, tipo or monto) the run ends
\* after one diagnostic: no rows are returned, calcular_estadisticas never
\* starts, no report and no prompt are printed and no file is written.
CargaFallida ==
    \/ archivo.estado \in {"no_existe", "error_lectura"}
    \/ /\ archivo.estado = "ok"
       /\ \E c \in {"id", "tipo", "monto"} : c \notin archivo.columnas

Titulo == Str("===== REPORTE DE TRANSACCIONES BANCARIAS =====")

C6_LoadFailureAborts ==
    CargaFallida
        => /\ pc = "fin"
           /\ excepcion = ""
           /\ IsNone(transacciones)
           /\ idx = 0 /\ IsNone(monto) /\ IsNone(estadisticas)
           /\ contador_creditos = 0 /\ contador_debitos = 0
           /\ transaccion_mayor = MayorInicial
           /\ IsNone(archivo_salida)
           /\ \/ StartsWith(consola, Str("Error: No se pudo encontrar el archivo '"))
              \/ StartsWith(consola, Str("Error inesperado al leer el archivo: "))
              \/ StartsWith(consola, Str("Error: El archivo CSV debe contener las columnas: "))
           /\ Ocurrencias(consola, <<"\n">>) = {Len(consola)}
           /\ ~Contiene(consola, Titulo)
           /\ ~Contiene(consola, Pregunta)

\* A file whose header lacks the monto column has been rejected.
C6_Witness ==
    /\ archivo.estado = "ok"
    /\ "monto" \notin archivo.columnas
    /\ pc = "fin"

----------------------------------------------------------------------------
\* The text generar_reporte printed, cut out of the console output: from the
\* line break before the title up to the prompt (or the end).
ReporteImpreso ==
    SubSeq(consola, Primera(consola, <<"\n">> \o Titulo),
           IF Contiene(consola, Pregunta)
           THEN Primera(consola, Pregunta) - 1 ELSE Len(consola))
Chomp(texto, fin) ==
    IF texto # <<>> /\ texto[Len(texto)] = fin
    THEN SubSeq(texto, 1, Len(texto) - 1) ELSE texto
Guardado == ~IsNone(archivo_salida)
Exitoso == Contiene(consola, Str("\nReporte guardado exitosamente en '"))

\* C7 (as stated): the text written to the file is byte-identical to the
\* text printed to the console, a closing newline aside.
C7_FileEqualsConsole ==
    (Guardado /\ Exitoso)
        => Chomp(Val(archivo_salida).contenido, 10)
           = Chomp(Utf8(ReporteImpreso), 10)

\* C7 (amended): the text printed to the console, encoded in UTF-8, is one
\* line break followed by exactly the bytes guardar_reporte writes when it
\* succeeds: the console report opens with an empty line the file does not
\* have, every other line is the same in the same order, and both texts end
\* with a line break.  When writing fails part-way the file holds the first
\* bytes of that text only.
C7_ConsoleIsNewlineThenFile ==
    Guardado
        => LET escrito == Val(archivo_salida).contenido
               impreso == Utf8(ReporteImpreso)
           IN  /\ impreso[1] = 10
               /\ Len(escrito) <= Len(impreso) - 1
               /\ escrito = SubSeq(impreso, 2, Len(escrito) + 1)
               /\ Exitoso => Len(escrito) = Len(impreso) - 1

\* A report with a largest transaction and a negative balance was saved.
C7_Witness ==
    /\ Guardado
    /\ Exitoso
    /\ ~IsNone(Val(estadisticas).transaccion_mayor.id)
    /\ Val(estadisticas).balance_final.sign = 1

----------------------------------------------------------------------------
\* t is the word w with any of its letters in upper case.
EsVariante(t, w) ==
    /\ Len(t) = Len(w)
    /\ \A i \in 1..Len(w) : t[i] = w[i] \/ t[i] = Mayuscula(w[i])

\* C8: the category computed for every row is one of credito, debito and
\* desconocido: credito for every case variant of "crédito" or "credito",
\* debito for every case variant of "débito" or "debito", desconocido for
\* every other value; and it is the category the loop holds after the row.
C8_ClasificarTotal ==
    /\ \A i \in 1..Len(Filas) :
          LET t == Filas[i].tipo
              esCredito == EsVariante(t, CreditoAcento) \/ EsVariante(t, Credito)
              esDebito == EsVariante(t, DebitoAcento) \/ EsVariante(t, Debito)
          IN  /\ Cat(i) \in {"credito", "debito", "desconocido"}
              /\ esCredito => Cat(i) = "credito"
              /\ esDebito => Cat(i) = "debito"
              /\ (~esCredito /\ ~esDebito) => Cat(i) = "desconocido"
    /\ (idx >= 1 /\ pc # "excepcion") => tipo = Cat(idx)

\* "CRÉDITO" has been classified as a credit.
C8_Witness ==
    /\ idx = 1
    /\ Filas[1].tipo = Str("CRÉDITO")
    /\ tipo = "credito"
    /\ contador_creditos = 1

----------------------------------------------------------------------------
\* C9: after any prefix of the rows credit_count + debit_count is at most
\* the number of rows processed; an iteration adds exactly 1 to that total
\* when the amount parses and the type is credit or debit, and 0 when the
\* category is unknown or the amount is invalid.  An iteration that an
\* exception cuts short adds at most 1, and only on a parsed credit or
\* debit row.
C9_CountsBounded ==
    /\ [](/\ pc # "excepcion" => contador_creditos + contador_debitos <= idx
          /\ contador_creditos + contador_debitos <= idx + 1)
    /\ [][LET delta == (contador_creditos' + contador_debitos')
                       - (contador_creditos + contador_debitos)
          IN  /\ EnCurso
                    => /\ delta \in {0, 1}
                       /\ delta = 1 => Parsea(idx + 1) /\ Clasificada(idx + 1)
                       /\ (idx' = idx + 1 /\ Parsea(idx + 1)
                           /\ Clasificada(idx + 1)) => delta = 1
              /\ ~EnCurso
                    => UNCHANGED <<contador_creditos, contador_debitos, idx>>
         ]_vars

\* Three rows processed, one of them of unknown category: two counted.
C9_Witness ==
    /\ idx = 3
    /\ \E i \in Hechas : Cat(i) = "desconocido"
    /\ contador_creditos = 1 /\ contador_debitos = 1

----------------------------------------------------------------------------
\* C10: the running maximum starts at (None, 0) and is replaced only by a
\* strictly greater amount, so its amount is never below zero, and while no
\* parsed row has had an amount above zero it stays (None, 0), also in the
\* returned summary, even when credit or debit rows were counted.
C10_MayorFloor ==
    /\ [](/\ idx = 0 => transaccion_mayor = MayorInicial
          /\ DecCmp(transaccion_mayor.monto, DecZero) >= 0
          /\ (\A i \in Hechas : ~Mayor(MontoDe(i), DecZero))
                => /\ transaccion_mayor = MayorInicial
                   /\ Retornado
                        => Val(estadisticas).transaccion_mayor = MayorInicial)
    /\ [][transaccion_mayor' # transaccion_mayor
            => Mayor(transaccion_mayor'.monto, transaccion_mayor.monto)]_vars

\* Credit and debit rows with zero and negative amounts were counted and the
\* summary still names no largest transaction.
C10_Witness ==
    /\ Retornado
    /\ Val(estadisticas).contador_creditos >= 1
    /\ Val(estadisticas).contador_debitos >= 1
    /\ \E i \in Hechas : Mayor(DecZero, MontoDe(i))
    /\ Val(estadisticas).transaccion_mayor = MayorInicial

====
